---- MODULE Spec2Model ----
(***************************************************************************)
(* Alpaca Salon front end: the post-update page (PostUpdatePage,           *)
(* src/pages/post/[id]/update.tsx) and the comment composer of the post    *)
(* detail page (PostDetailPage, src/pages/post/[id].tsx).                  *)
(*                                                                         *)
(* A JS string is a sequence of one-character strings, so that trimming    *)
(* and the emptiness test of the `required` rule are computed.  React      *)
(* state updates are atomic: a handler runs to its next await in one step. *)
(***************************************************************************)
EXTENDS Integers, Sequences, FiniteSets, TLC

VARIABLES
    \* ---- PostUpdatePage ----
    postId,               \* router.query.id ?? ''
    nickname,             \* currentUser.nickname
    postQuery,            \* usePostQuery: "pending" | "completed" (data.post set) |
                          \*   "missing" (data.post null) | "failed"
    title, contents,      \* react-hook-form values
    errors,               \* formState.errors: set of field names
    isSubmitted,          \* formState.isSubmitted
    imageInfos,           \* useState<ImageInfo[]>
    formData,             \* formData.current: sequence of [key, file]
    imageId,              \* imageId.current
    isPostUpdateLoading,  \* useState(false)
    submissions,          \* updatePost activations suspended at an await
    mounted,              \* the page component is mounted
    toast,                \* last notification shown
    routerBacks,          \* number of router.back() calls
    uploadCalls,          \* number of uploadImageFiles calls
    mutationCalls,        \* number of updatePostMutation calls
    idLog,                \* ids handed out by createPreviewImages, in order
    lastSubmit,           \* outcome of the last submit gesture
    updateResult,         \* outcome of the last settled updatePostMutation
    \* ---- PostDetailPage (comment composer) ----
    commentContents,      \* react-hook-form value of 'contents'
    parentComment,        \* useState<ParentComment>()
    createMutations,      \* createCommentMutation calls in flight
    createResult,         \* outcome of the last settled createCommentMutation
    commentToast          \* last notification shown

updateVars == <<postId, nickname, postQuery, title, contents, errors, isSubmitted,
                imageInfos, formData, imageId, isPostUpdateLoading, submissions,
                mounted, toast, routerBacks, uploadCalls, mutationCalls, idLog,
                lastSubmit, updateResult>>

commentVars == <<commentContents, parentComment, createMutations, createResult,
                 commentToast>>

vars == <<updateVars, commentVars>>

----------------------------------------------------------------------------
\* Bounds

MaxStaged == 2      \* images staged in one session
MaxFiles == 2       \* files in one file-input selection
MaxSubmits == 2     \* updatePostMutation / uploadImageFiles calls in one session

----------------------------------------------------------------------------
\* Values

Undefined == -1     \* JS undefined, where a number is expected

EmptyText == <<>>

Texts == {<<>>, <<" ">>, <<"a">>}

FileTypes == {"image/png", "text/plain"}

Fields == {"title", "contents"}

RECURSIVE SeqsUpTo(_, _)
SeqsUpTo(S, n) ==
    IF n = 0 THEN {<<>>}
    ELSE LET shorter == SeqsUpTo(S, n - 1)
         IN  shorter \cup {Append(s, x) : s \in shorter, x \in S}

\* String.prototype.trim
RECURSIVE TrimStart(_)
TrimStart(s) ==
    IF s # <<>> /\ Head(s) = " " THEN TrimStart(Tail(s)) ELSE s

RECURSIVE TrimEnd(_)
TrimEnd(s) ==
    IF s # <<>> /\ s[Len(s)] = " " THEN TrimEnd(SubSeq(s, 1, Len(s) - 1)) ELSE s

Trim(s) == TrimEnd(TrimStart(s))

----------------------------------------------------------------------------
\* PostUpdatePage: derived values

\* the `required` rule of register(): the value is the empty string
RequiredDropped(v) == TRUE
Required(v) == v # EmptyText

FieldValue(f) == IF f = "title" THEN title ELSE contents

\* usePostQuery({ skip: !postId || !nickname })
skip == postId = "" \/ nickname = ""

\* const { loading } = usePostQuery(...)
loading == ~skip /\ postQuery = "pending"

\* <TransparentButton disabled={loading || !isEmpty(errors) || isPostUpdateLoading}>
SubmitButtonDisabledWhileLoadingOnly == loading \/ errors # {}
SubmitButtonDisabled == loading \/ errors # {} \/ isPostUpdateLoading

\* <Input>, <Textarea>, <FileInput> disabled={loading || isPostUpdateLoading}
InputDisabled == loading \/ isPostUpdateLoading

\* FormData keys: `image${n}` and the literal 'images'
Key(n) == <<"image", n>>
ImagesKey == <<"images">>

\* FormData.prototype.has / delete
Has(fd, key) == \E i \in 1..Len(fd) : fd[i].key = key
FormDataDelete(fd, key) ==
    LET Keep(entry) == entry.key # key IN SelectSeq(fd, Keep)

\* an ImageInfo object, and a bare URL string read as an ImageInfo
\* (its .id and .url are undefined)
ImageInfo(n) == [id |-> n, url |-> <<"blob", n>>, str |-> ""]
UrlString(u) == [id |-> Undefined, url |-> <<>>, str |-> u]

IsImageType(type) == type = "image/png"     \* file.type.startsWith('image/')

\* imageId.current after one staged file: `imageId.current++` twice
NextImageIdNoIncrement(cur) == cur
NextImageId(cur) == (cur + 1) + 1

\* the loop of createPreviewImages over the selected files
RECURSIVE StageFiles(_, _)
StageFiles(files, cur) ==
    IF files = <<>> THEN [infos |-> <<>>, entries |-> <<>>, ids |-> <<>>, next |-> cur]
    ELSE IF IsImageType(Head(files))
         THEN LET rest == StageFiles(Tail(files), NextImageId(cur))
              IN  [infos   |-> <<ImageInfo(cur)>> \o rest.infos,
                   entries |-> <<[key |-> Key(cur), file |-> Head(files)]>> \o rest.entries,
                   ids     |-> <<cur>> \o rest.ids,
                   next    |-> rest.next]
         ELSE StageFiles(Tail(files), cur)

\* results of the post query
PostResults ==
    {[exists |-> FALSE, title |-> <<>>, contents |-> <<>>, hasImageUrls |-> FALSE,
      imageUrls |-> <<>>]}
    \cup [exists : {TRUE}, title : {<<"a">>}, contents : {<<"a">>},
          hasImageUrls : {TRUE}, imageUrls : {<<>>, <<"u1">>, <<"u1", "u2">>}]
    \cup {[exists |-> TRUE, title |-> <<"a">>, contents |-> <<"a">>,
           hasImageUrls |-> FALSE, imageUrls |-> <<>>]}

RECURSIVE MapUrlStrings(_)
MapUrlStrings(urls) ==
    IF urls = <<>> THEN <<>> ELSE <<UrlString(Head(urls))>> \o MapUrlStrings(Tail(urls))

RemoveAt(s, i) == SubSeq(s, 1, i - 1) \o SubSeq(s, i + 1, Len(s))

----------------------------------------------------------------------------
\* PostUpdatePage: initial state and handlers

UpdateInit ==
    /\ postId \in {"", "p1"}
    /\ nickname \in {"", "nick"}
    /\ postQuery = "pending"
    /\ title = EmptyText
    /\ contents = EmptyText
    /\ errors = {}
    /\ isSubmitted = FALSE
    /\ imageInfos = <<>>
    /\ formData = <<>>
    /\ imageId = 0
    /\ isPostUpdateLoading = FALSE
    /\ submissions = <<>>
    /\ mounted = TRUE
    /\ toast = "none"
    /\ routerBacks = 0
    /\ uploadCalls = 0
    /\ mutationCalls = 0
    /\ idLog = <<>>
    /\ lastSubmit = "none"
    /\ updateResult = "none"

\* router.query.id becomes available
RouterReady ==
    /\ mounted
    /\ postId = ""
    /\ postId' = "p1"
    /\ UNCHANGED <<commentVars, updateResult, nickname, postQuery, title, contents,
                   errors, isSubmitted, imageInfos, formData, imageId,
                   isPostUpdateLoading, submissions, mounted, toast, routerBacks,
                   uploadCalls, mutationCalls, idLog, lastSubmit>>

\* the current user's nickname becomes available
UserLoaded ==
    /\ mounted
    /\ nickname = ""
    /\ nickname' = "nick"
    /\ UNCHANGED <<commentVars, updateResult, postId, postQuery, title, contents,
                   errors, isSubmitted, imageInfos, formData, imageId,
                   isPostUpdateLoading, submissions, mounted, toast, routerBacks,
                   uploadCalls, mutationCalls, idLog, lastSubmit>>

\* usePostQuery onCompleted
PostQueryCompleted(post) ==
    /\ mounted
    /\ loading
    /\ postQuery' = IF post.exists THEN "completed" ELSE "missing"
    /\ IF post.exists
       THEN /\ title' = post.title
            /\ contents' = post.contents
            /\ imageInfos' = IF post.hasImageUrls THEN MapUrlStrings(post.imageUrls)
                             ELSE imageInfos
       ELSE UNCHANGED <<title, contents, imageInfos>>
    /\ UNCHANGED <<commentVars, updateResult, postId, nickname, errors, isSubmitted,
                   formData, imageId, isPostUpdateLoading, submissions, mounted, toast,
                   routerBacks, uploadCalls, mutationCalls, idLog, lastSubmit>>

\* usePostQuery onError: toastApolloError
PostQueryFailed ==
    /\ mounted
    /\ loading
    /\ postQuery' = "failed"
    /\ toast' = "apolloError"
    /\ UNCHANGED <<commentVars, updateResult, postId, nickname, title, contents, errors,
                   isSubmitted, imageInfos, formData, imageId, isPostUpdateLoading,
                   submissions, mounted, routerBacks, uploadCalls, mutationCalls, idLog,
                   lastSubmit>>

\* typing into <Input {...register('title')}>
ChangeTitle(t) ==
    /\ mounted
    /\ ~InputDisabled
    /\ t # title
    /\ title' = t
    /\ UNCHANGED <<commentVars, updateResult, postId, nickname, postQuery, contents,
                   errors, isSubmitted, imageInfos, formData, imageId,
                   isPostUpdateLoading, submissions, mounted, toast, routerBacks,
                   uploadCalls, mutationCalls, idLog, lastSubmit>>

\* typing into <Textarea {...register('contents')}>
ChangeContents(t) ==
    /\ mounted
    /\ ~InputDisabled
    /\ t # contents
    /\ contents' = t
    /\ UNCHANGED <<commentVars, updateResult, postId, nickname, postQuery, title,
                   errors, isSubmitted, imageInfos, formData, imageId,
                   isPostUpdateLoading, submissions, mounted, toast, routerBacks,
                   uploadCalls, mutationCalls, idLog, lastSubmit>>

\* reValidateMode: 'onBlur' -- after a submit, leaving a field validates it again;
\* the errors effect warns when an error is present after the change
BlurField(f) ==
    /\ mounted
    /\ ~InputDisabled
    /\ isSubmitted
    /\ errors' = (errors \ {f}) \cup (IF Required(FieldValue(f)) THEN {} ELSE {f})
    /\ toast' = IF errors' # {} /\ errors' # errors THEN "warn" ELSE toast
    /\ UNCHANGED <<commentVars, updateResult, postId, nickname, postQuery, title,
                   contents, isSubmitted, imageInfos, formData, imageId,
                   isPostUpdateLoading, submissions, mounted, routerBacks, uploadCalls,
                   mutationCalls, idLog, lastSubmit>>

\* <FileInput onChange={createPreviewImages}>
CreatePreviewImages(files) ==
    LET staged == StageFiles(files, imageId) IN
    /\ mounted
    /\ ~InputDisabled
    /\ Len(idLog) + Len(staged.ids) <= MaxStaged
    /\ IF Len(files) > 0
       THEN /\ imageInfos' = imageInfos \o staged.infos
            /\ formData' = formData \o staged.entries
            /\ imageId' = staged.next
            /\ idLog' = idLog \o staged.ids
       ELSE UNCHANGED <<imageInfos, formData, imageId, idLog>>
    /\ UNCHANGED <<commentVars, updateResult, postId, nickname, postQuery, title,
                   contents, errors, isSubmitted, isPostUpdateLoading, submissions,
                   mounted, toast, routerBacks, uploadCalls, mutationCalls, lastSubmit>>

\* deletePreviewImage(imageId)
DeletePreviewImage(id) ==
    LET Keep(prev) == prev.id # id IN
    /\ formData' = FormDataDelete(formData, Key(id))
    /\ imageInfos' = SelectSeq(imageInfos, Keep)
    /\ UNCHANGED <<commentVars, updateResult, postId, nickname, postQuery, title,
                   contents, errors, isSubmitted, imageId, isPostUpdateLoading,
                   submissions, mounted, toast, routerBacks, uploadCalls, mutationCalls,
                   idLog, lastSubmit>>

\* <XButtonIcon onClick={() => deletePreviewImage(imageInfo.id)} /> of slide i
XButtonClick(i) ==
    /\ mounted
    /\ i \in 1..Len(imageInfos)
    /\ DeletePreviewImage(imageInfos[i].id)

\* const variables = { input: { id: postId, ...input } }
Variables(input) ==
    [id |-> postId, title |-> input.title, contents |-> input.contents,
     hasImageUrls |-> FALSE, imageUrls |-> <<>>]

\* updatePost(input), up to its first await
UpdatePost(input) ==
    /\ isPostUpdateLoading' = TRUE
    /\ IF Has(formData, ImagesKey)
       THEN /\ uploadCalls' = uploadCalls + 1
            /\ submissions' = Append(submissions,
                   [stage |-> "upload", variables |-> Variables(input), bundle |-> formData])
            /\ UNCHANGED mutationCalls
       ELSE /\ mutationCalls' = mutationCalls + 1
            /\ submissions' = Append(submissions,
                   [stage |-> "mutation", variables |-> Variables(input), bundle |-> formData])
            /\ UNCHANGED uploadCalls

\* handleSubmit(updatePost): validate every registered field, then call updatePost
HandleSubmit ==
    LET errs == {f \in Fields : ~Required(FieldValue(f))} IN
    /\ mutationCalls < MaxSubmits
    /\ uploadCalls < MaxSubmits
    /\ isSubmitted' = TRUE
    /\ errors' = errs
    /\ IF errs = {}
       THEN /\ UpdatePost([title |-> title, contents |-> contents])
            /\ lastSubmit' = "accepted"
            /\ UNCHANGED toast
       ELSE /\ toast' = "warn"
            /\ lastSubmit' = "invalid"
            /\ UNCHANGED <<isPostUpdateLoading, submissions, uploadCalls, mutationCalls>>
    /\ UNCHANGED <<commentVars, updateResult, postId, nickname, postQuery, title,
                   contents, imageInfos, formData, imageId, mounted, routerBacks,
                   idLog>>

\* a click on <TransparentButton type="submit">; a disabled button dispatches nothing
ClickSubmit ==
    /\ mounted
    /\ IF SubmitButtonDisabled
       THEN /\ lastSubmit' = "blocked"
            /\ UNCHANGED <<commentVars, updateResult, postId, nickname, postQuery,
                           title, contents, errors, isSubmitted, imageInfos, formData,
                           imageId, isPostUpdateLoading, submissions, mounted, toast,
                           routerBacks, uploadCalls, mutationCalls, idLog>>
       ELSE HandleSubmit

\* Shift+Enter in <Textarea onKeyDown={submitWhenShiftEnter}>
ShiftEnterSubmit ==
    /\ mounted
    /\ ~InputDisabled
    /\ HandleSubmit

\* the promise awaited by activation i of updatePost resolves:
\* uploadImageFiles with the hosted urls, or updatePostMutation with its data
\* (onCompleted runs first, then the line after the await)
AwaitResolved(i, hasPayload) ==
    LET s == submissions[i] IN
    /\ i \in 1..Len(submissions)
    /\ IF s.stage = "upload"
       THEN /\ submissions' = [submissions EXCEPT ![i] =
                   [stage |-> "mutation",
                    variables |-> [s.variables EXCEPT !.hasImageUrls = TRUE,
                                                      !.imageUrls = <<"hosted">>],
                    bundle |-> s.bundle]]
            /\ mutationCalls' = mutationCalls + 1
            /\ UNCHANGED <<toast, routerBacks, mounted, isPostUpdateLoading, updateResult>>
       ELSE /\ submissions' = RemoveAt(submissions, i)
            /\ updateResult' = IF hasPayload THEN "data" ELSE "null"
            /\ IF hasPayload
               THEN /\ toast' = "success"
                    /\ routerBacks' = routerBacks + 1
                    /\ mounted' = FALSE
               ELSE UNCHANGED <<toast, routerBacks, mounted>>
            /\ isPostUpdateLoading' = IF mounted THEN FALSE ELSE isPostUpdateLoading
            /\ UNCHANGED mutationCalls
    /\ UNCHANGED <<commentVars, postId, nickname, postQuery, title, contents, errors,
                   isSubmitted, imageInfos, formData, imageId, uploadCalls, idLog,
                   lastSubmit>>

\* the same step when the failing mutation rejects instead of resolving:
\* the line after the await never runs
AwaitFailedThrows(i) ==
    LET s == submissions[i] IN
    /\ i \in 1..Len(submissions)
    /\ submissions' = RemoveAt(submissions, i)
    /\ IF s.stage = "upload"
       THEN UNCHANGED <<toast, updateResult>>
       ELSE /\ toast' = "apolloError"
            /\ updateResult' = "error"
    /\ UNCHANGED <<commentVars, postId, nickname, postQuery, title, contents, errors,
                   isSubmitted, imageInfos, formData, imageId, mounted, routerBacks,
                   uploadCalls, mutationCalls, idLog, lastSubmit, isPostUpdateLoading>>

\* the promise awaited by activation i rejects / the mutation fails:
\* uploadImageFiles throws out of updatePost; updatePostMutation calls onError
\* and resolves, so the line after the await still runs
AwaitFailed(i) ==
    LET s == submissions[i] IN
    /\ i \in 1..Len(submissions)
    /\ submissions' = RemoveAt(submissions, i)
    /\ IF s.stage = "upload"
       THEN UNCHANGED <<toast, isPostUpdateLoading, updateResult>>
       ELSE /\ toast' = "apolloError"
            /\ updateResult' = "error"
            /\ isPostUpdateLoading' = IF mounted THEN FALSE ELSE isPostUpdateLoading
    /\ UNCHANGED <<commentVars, postId, nickname, postQuery, title, contents, errors,
                   isSubmitted, imageInfos, formData, imageId, mounted, routerBacks,
                   uploadCalls, mutationCalls, idLog, lastSubmit>>

\* <XIcon onClick={goBack} />
GoBack ==
    /\ mounted
    /\ routerBacks' = routerBacks + 1
    /\ mounted' = FALSE
    /\ UNCHANGED <<commentVars, updateResult, postId, nickname, postQuery, title,
                   contents, errors, isSubmitted, imageInfos, formData, imageId,
                   isPostUpdateLoading, submissions, toast, uploadCalls, mutationCalls,
                   idLog, lastSubmit>>

Next ==
    \/ RouterReady
    \/ UserLoaded
    \/ \E post \in PostResults : PostQueryCompleted(post)
    \/ PostQueryFailed
    \/ \E t \in Texts : ChangeTitle(t)
    \/ \E t \in Texts : ChangeContents(t)
    \/ \E f \in Fields : BlurField(f)
    \/ \E files \in SeqsUpTo(FileTypes, MaxFiles) : CreatePreviewImages(files)
    \/ \E i \in 1..Len(imageInfos) : XButtonClick(i)
    \/ ClickSubmit
    \/ ShiftEnterSubmit
    \/ \E i \in 1..Len(submissions), hasPayload \in BOOLEAN : AwaitResolved(i, hasPayload)
    \/ \E i \in 1..Len(submissions) : AwaitFailed(i)
    \/ GoBack

----------------------------------------------------------------------------
\* PostDetailPage: the comment composer

CommentIds == {"c1", "c2"}

\* useState<ParentComment>(): undefined, or the comment replied to
NoParent == [defined |-> FALSE, id |-> ""]
Parent(c) == [defined |-> TRUE, id |-> c]

\* const [createCommentMutation, { loading }] = useCreateCommentMutation(...)
commentLoading == createMutations # <<>>

CommentInit ==
    /\ commentContents = EmptyText
    /\ parentComment = NoParent
    /\ createMutations = <<>>
    /\ createResult = "none"
    /\ commentToast = "none"

\* typing into <CommentTextarea disabled={loading}>
ChangeComment(t) ==
    /\ ~commentLoading
    /\ t # commentContents
    /\ commentContents' = t
    /\ UNCHANGED <<updateVars, parentComment, createMutations, createResult, commentToast>>

\* <CommentCard setParentComment={setParentComment}>: reply to comment c
SetParentComment(c) ==
    /\ parentComment # Parent(c)
    /\ parentComment' = Parent(c)
    /\ UNCHANGED <<updateVars, commentContents, createMutations, createResult, commentToast>>

\* writeComment: setParentComment(undefined)
WriteComment ==
    /\ parentComment # NoParent
    /\ parentComment' = NoParent
    /\ UNCHANGED <<updateVars, commentContents, createMutations, createResult, commentToast>>

\* the value react-hook-form's reset() restores: defaultValues.contents
ResetKeepsContents(current) == current
ResetContents(current) == EmptyText

\* createComment({ contents }): start the mutation, then reset() the form
CreateComment(input) ==
    /\ createMutations' = Append(createMutations,
           [contents |-> input, postId |-> postId,
            hasCommentId |-> parentComment.defined, commentId |-> parentComment.id])
    /\ commentContents' = ResetContents(commentContents)
    /\ UNCHANGED <<updateVars, parentComment, createResult, commentToast>>

\* <StickyForm onSubmit={handleSubmit(createComment)}>
SubmitComment ==
    /\ Required(commentContents)
    /\ CreateComment(commentContents)

\* useCreateCommentMutation onCompleted
CreateCommentCompleted(i, hasPayload) ==
    /\ i \in 1..Len(createMutations)
    /\ createMutations' = RemoveAt(createMutations, i)
    /\ createResult' = IF hasPayload THEN "data" ELSE "null"
    /\ IF hasPayload
       THEN /\ commentToast' = "success"
            /\ parentComment' = NoParent
       ELSE UNCHANGED <<commentToast, parentComment>>
    /\ UNCHANGED <<updateVars, commentContents>>

\* useCreateCommentMutation onError: toastApolloError
CreateCommentFailed(i) ==
    /\ i \in 1..Len(createMutations)
    /\ createMutations' = RemoveAt(createMutations, i)
    /\ createResult' = "error"
    /\ commentToast' = "apolloError"
    /\ UNCHANGED <<updateVars, commentContents, parentComment>>

NextComment ==
    \/ \E t \in Texts : ChangeComment(t)
    \/ \E c \in CommentIds : SetParentComment(c)
    \/ WriteComment
    \/ SubmitComment
    \/ \E i \in 1..Len(createMutations), hasPayload \in BOOLEAN :
           CreateCommentCompleted(i, hasPayload)
    \/ \E i \in 1..Len(createMutations) : CreateCommentFailed(i)

----------------------------------------------------------------------------
\* Specifications

Init == UpdateInit /\ CommentInit

\* one session of the post-update page
Spec == Init /\ [][Next]_vars

\* one visit of the post detail page
SpecComment == Init /\ [][NextComment]_vars

----------------------------------------------------------------------------
\* Claims: the post-update page (checked under Spec)

\* C1: a submission whose bundle held at least one staged image at submit time
\* has uploaded it (uploadImageFiles was called and resolved, filling
\* variables.input.imageUrls) before its update mutation is invoked.
C1_UploadBeforeMutation ==
    \A i \in 1..Len(submissions) :
        (submissions[i].stage = "mutation" /\ submissions[i].bundle # <<>>)
            => (submissions[i].variables.hasImageUrls /\ uploadCalls >= 1)

\* C2: while a submission is pending (isPostUpdateLoading) no step starts
\* another one: no new activation of updatePost, no upload call, no mutation
\* call -- so at most one update mutation is in flight.
C2_NoSubmitWhilePending ==
    [][isPostUpdateLoading =>
          /\ Len(submissions') <= Len(submissions)
          /\ uploadCalls' = uploadCalls
          /\ mutationCalls' = mutationCalls]_vars

\* a submit click arrived while the one submission was pending and was dropped
C2_Witness ==
    /\ lastSubmit = "blocked"
    /\ isPostUpdateLoading
    /\ Len(submissions) = 1
    /\ mutationCalls = 1

C4_TrimmedRequired ==
    [][((ClickSubmit \/ ShiftEnterSubmit)
          /\ (Trim(title) = EmptyText \/ Trim(contents) = EmptyText)) =>
          /\ mutationCalls' = mutationCalls
          /\ uploadCalls' = uploadCalls
          /\ (isPostUpdateLoading' => isPostUpdateLoading)]_vars

\* C4 amended: a submit gesture with a title or contents that is the empty
\* string calls neither collaborator and does not set isPostUpdateLoading.
C4_EmptyRequired ==
    [][((ClickSubmit \/ ShiftEnterSubmit)
          /\ (title = EmptyText \/ contents = EmptyText)) =>
          /\ mutationCalls' = mutationCalls
          /\ uploadCalls' = uploadCalls
          /\ (isPostUpdateLoading' => isPostUpdateLoading)]_vars

\* a submit with an empty title was refused by validation
C4_Witness ==
    /\ lastSubmit = "invalid"
    /\ title = EmptyText
    /\ contents # EmptyText
    /\ "title" \in errors
    /\ mutationCalls = 0
    /\ ~isPostUpdateLoading

\* the source post has not been loaded
PostNotLoaded == skip \/ postQuery # "completed"

\* C5: while the source post has not been loaded, submission is prevented:
\* no step invokes the update mutation.
C5_NoSubmitBeforeLoad ==
    [][PostNotLoaded => mutationCalls' = mutationCalls]_vars

\* C6: unstaging through the X button of slide i removes that entry only; every
\* other entry of the preview sequence stays, and only its key leaves the bundle.
C6_UnstageOnlyOne ==
    [][\A i \in 1..Len(imageInfos) :
          XButtonClick(i) =>
              /\ imageInfos' = RemoveAt(imageInfos, i)
              /\ formData' = FormDataDelete(formData, Key(imageInfos[i].id))]_vars

\* C8: the bundle holds key image<id> exactly when the preview sequence holds a
\* staged entry with that id, and no two staged preview entries share an id.
C8_PreviewsMatchBundle ==
    /\ \A n \in 0..imageId :
          Has(formData, Key(n)) <=> (\E i \in 1..Len(imageInfos) : imageInfos[i].id = n)
    /\ \A i, j \in 1..Len(imageInfos) :
          (i # j /\ imageInfos[i].id # Undefined) => imageInfos[i].id # imageInfos[j].id

\* C9: the ids handed out by createPreviewImages are strictly increasing over
\* the whole session, all below the counter, and no bundle key occurs twice.
C9_FreshIds ==
    /\ \A i, j \in 1..Len(idLog) : i < j => idLog[i] < idLog[j]
    /\ \A i \in 1..Len(idLog) : idLog[i] < imageId
    /\ \A i, j \in 1..Len(formData) : i # j => formData[i].key # formData[j].key

\* an image was unstaged and a later one staged under a greater id
C9_Witness ==
    /\ Len(idLog) >= 2
    /\ ~Has(formData, Key(idLog[1]))
    /\ Has(formData, Key(idLog[Len(idLog)]))

\* C10: once the page is unmounted, no step navigates (router.back) or changes
\* the page's state.
C10_LateCallbackNoOp ==
    [][~mounted =>
          /\ routerBacks' = routerBacks
          /\ UNCHANGED <<title, contents, errors, isSubmitted, imageInfos, formData,
                         imageId, isPostUpdateLoading>>]_vars

----------------------------------------------------------------------------
\* Claims: the comment composer (checked under SpecComment)

\* C7: when a create-comment mutation succeeds, contents and parentComment are
\* cleared; when it fails, contents is what was submitted and parentComment is
\* untouched.
C7_CommentOutcome ==
    [][\A i \in 1..Len(createMutations) :
          createMutations' = RemoveAt(createMutations, i) =>
              /\ createResult' = "data" =>
                    (commentContents' = EmptyText /\ parentComment' = NoParent)
              /\ createResult' = "error" =>
                    (commentContents' = createMutations[i].contents
                       /\ parentComment' = parentComment)]_vars

====
